---- MODULE Spec2Model ----
(***************************************************************************)
(* Agenda-based MCFG parser (agenda_based_mcfg_wchoi18): the rule model of *)
(* grammar.py, the chart / agenda parser of parser.py and the tree         *)
(* operations of tree.py that the parser's results are read with.          *)
(***************************************************************************)
EXTENDS Integers, Sequences, FiniteSets

\* ------------------------------------------------------------------ bounds
\* longest token sequence enumerated over a grammar's words
MaxLen == 2
\* parse calls made on one parser object
MaxCalls == 3
\* grammars with at most this many rules are iterated in every rule order
MaxPermRules == 4

\* ------------------------------------------------------- generic helpers
\* the element of the one-element set S: The({e : x \in {v}}) is e with x
\* naming the value of v
The(S) == CHOOSE y \in S : TRUE

RECURSIVE ConcatFrom(_, _)
ConcatFrom(ss, k) ==
  IF k > Len(ss) THEN <<>> ELSE ss[k] \o ConcatFrom(ss, k + 1)

\* the concatenation of the sequences of ss
Concat(ss) == The({ConcatFrom(s, 1) :
                    s \in {ss}})

Min(S) == CHOOSE x \in S : \A y \in S : x <= y

\* the elements of S in some order
RECURSIVE SetToSeq(_)
SetToSeq(S) ==
  IF S = {} THEN <<>>
  ELSE The({<<x>> \o SetToSeq(S \ {x}) :
             x \in {CHOOSE y \in S : TRUE}})

SeqsUpTo(W, n) == UNION {[1..k -> W] : k \in 0..n}

AllOrders(n) == {p \in [1..n -> 1..n] : \A i, j \in 1..n : p[i] = p[j] => i = j}

Reverse(n) == [i \in 1..n |-> n + 1 - i]

\* ------------------------------------------------- grammar.py: rule model
\* MCFGRuleElement(variable, *string_variables)
MCFGRuleElement(variable, string_variables) ==
  [variable |-> variable, string_variables |-> string_variables]

\* MCFGRuleElementInstance(variable, *string_spans); a span is <<begin, end>>
MCFGRuleElementInstance(variable, string_spans) ==
  [variable |-> variable, string_spans |-> string_spans]

\* MCFGRule(left_side, *right_side), before _validate
MCFGRule(left_side, right_side) ==
  [left_side |-> left_side, right_side |-> right_side]

is_epsilon(rule) == Len(rule.right_side) = 0

\* MCFGRuleElement.unique_string_variables
unique_string_variables(el) ==
  UNION {{el.string_variables[g][i] : i \in 1..Len(el.string_variables[g])} :
           g \in 1..Len(el.string_variables)}

\* a validation that lets right-side elements share string variables
rule_validate_sharing(rule) ==
  \/ is_epsilon(rule)
  \/ unique_string_variables(rule.left_side) =
       UNION {unique_string_variables(rule.right_side[k]) :
                k \in 1..Len(rule.right_side)}

\* a validation that accepts right-side string variables the left side does
\* not use
rule_validate_subset(rule) ==
  LET vs == [k \in 1..Len(rule.right_side) |->
               unique_string_variables(rule.right_side[k])]
  IN  /\ ~\E i, j \in 1..Len(vs) : i < j /\ (vs[i] \cap vs[j]) # {}
      /\ \/ is_epsilon(rule)
         \/ unique_string_variables(rule.left_side) \subseteq
              UNION {vs[k] : k \in 1..Len(vs)}

\* MCFGRule._validate: TRUE when no ValueError is raised
rule_validate(rule) ==
  LET vs == [k \in 1..Len(rule.right_side) |->
               unique_string_variables(rule.right_side[k])]
      sharing == \E i, j \in 1..Len(vs) : i < j /\ (vs[i] \cap vs[j]) # {}
  IN  /\ ~sharing
      /\ \/ is_epsilon(rule)
         \/ unique_string_variables(rule.left_side) =
              UNION {vs[k] : k \in 1..Len(vs)}

\* --------------------------------------------------------------- fixtures
\* The grammars the parser is constructed with.  Each is written as the
\* objects MCFGRule.from_string builds for the quoted rule text (a right-side
\* variable becomes its position among the right-side variables), except
\* Unaligned, which is built with the MCFGRuleElement constructor directly.
GreyhoundRules ==
  <<
      MCFGRule(MCFGRuleElement("S", <<<<0, 1>>>>), <<MCFGRuleElement("NP", <<<<0>>>>), MCFGRuleElement("VP", <<<<1>>>>)>>),   \* S(uv) -> NP(u) VP(v)
      MCFGRule(MCFGRuleElement("S", <<<<0, 1>>>>), <<MCFGRuleElement("NPwh", <<<<0>>>>), MCFGRuleElement("VP", <<<<1>>>>)>>),   \* S(uv) -> NPwh(u) VP(v)
      MCFGRule(MCFGRuleElement("S", <<<<1, 0, 2>>>>), <<MCFGRuleElement("Aux", <<<<0>>>>), MCFGRuleElement("Swhmain", <<<<1>>, <<2>>>>)>>),   \* S(vuw) -> Aux(u) Swhmain(v, w)
      MCFGRule(MCFGRuleElement("S", <<<<0, 2, 1>>>>), <<MCFGRuleElement("NPdisloc", <<<<0>>, <<1>>>>), MCFGRuleElement("VP", <<<<2>>>>)>>),   \* S(uwv) -> NPdisloc(u, v) VP(w)
      MCFGRule(MCFGRuleElement("S", <<<<0, 2, 1>>>>), <<MCFGRuleElement("NPwhdisloc", <<<<0>>, <<1>>>>), MCFGRuleElement("VP", <<<<2>>>>)>>),   \* S(uwv) -> NPwhdisloc(u, v) VP(w)
      MCFGRule(MCFGRuleElement("Sbar", <<<<0, 1>>>>), <<MCFGRuleElement("C", <<<<0>>>>), MCFGRuleElement("S", <<<<1>>>>)>>),   \* Sbar(uv) -> C(u) S(v)
      MCFGRule(MCFGRuleElement("Sbarwh", <<<<1>>, <<0, 2>>>>), <<MCFGRuleElement("C", <<<<0>>>>), MCFGRuleElement("Swhemb", <<<<1>>, <<2>>>>)>>),   \* Sbarwh(v, uw) -> C(u) Swhemb(v, w)
      MCFGRule(MCFGRuleElement("Sbarwh", <<<<0>>, <<1>>>>), <<MCFGRuleElement("NPwh", <<<<0>>>>), MCFGRuleElement("VP", <<<<1>>>>)>>),   \* Sbarwh(u, v) -> NPwh(u) VP(v)
      MCFGRule(MCFGRuleElement("Swhmain", <<<<1>>, <<0, 2>>>>), <<MCFGRuleElement("NP", <<<<0>>>>), MCFGRuleElement("VPwhmain", <<<<1>>, <<2>>>>)>>),   \* Swhmain(v, uw) -> NP(u) VPwhmain(v, w)
      MCFGRule(MCFGRuleElement("Swhmain", <<<<2>>, <<0, 3, 1>>>>), <<MCFGRuleElement("NPdisloc", <<<<0>>, <<1>>>>), MCFGRuleElement("VPwhmain", <<<<2>>, <<3>>>>)>>),   \* Swhmain(w, uxv) -> NPdisloc(u, v) VPwhmain(w, x)
      MCFGRule(MCFGRuleElement("Swhemb", <<<<1>>, <<0, 2>>>>), <<MCFGRuleElement("NP", <<<<0>>>>), MCFGRuleElement("VPwhemb", <<<<1>>, <<2>>>>)>>),   \* Swhemb(v, uw) -> NP(u) VPwhemb(v, w)
      MCFGRule(MCFGRuleElement("Swhemb", <<<<2>>, <<0, 3, 1>>>>), <<MCFGRuleElement("NPdisloc", <<<<0>>, <<1>>>>), MCFGRuleElement("VPwhemb", <<<<2>>, <<3>>>>)>>),   \* Swhemb(w, uxv) -> NPdisloc(u, v) VPwhemb(w, x)
      MCFGRule(MCFGRuleElement("Src", <<<<1>>, <<0, 2>>>>), <<MCFGRuleElement("NP", <<<<0>>>>), MCFGRuleElement("VPrc", <<<<1>>, <<2>>>>)>>),   \* Src(v, uw) -> NP(u) VPrc(v, w)
      MCFGRule(MCFGRuleElement("Src", <<<<2>>, <<0, 3, 1>>>>), <<MCFGRuleElement("NPdisloc", <<<<0>>, <<1>>>>), MCFGRuleElement("VPrc", <<<<2>>, <<3>>>>)>>),   \* Src(w, uxv) -> NPdisloc(u, v) VPrc(w, x)
      MCFGRule(MCFGRuleElement("Src", <<<<0>>, <<1>>>>), <<MCFGRuleElement("N", <<<<0>>>>), MCFGRuleElement("VP", <<<<1>>>>)>>),   \* Src(u, v) -> N(u) VP(v)
      MCFGRule(MCFGRuleElement("Swhrc", <<<<0>>, <<1>>>>), <<MCFGRuleElement("Nwh", <<<<0>>>>), MCFGRuleElement("VP", <<<<1>>>>)>>),   \* Swhrc(u, v) -> Nwh(u) VP(v)
      MCFGRule(MCFGRuleElement("Swhrc", <<<<1>>, <<0, 2>>>>), <<MCFGRuleElement("NP", <<<<0>>>>), MCFGRuleElement("VPwhrc", <<<<1>>, <<2>>>>)>>),   \* Swhrc(v, uw) -> NP(u) VPwhrc(v, w)
      MCFGRule(MCFGRuleElement("Sbarwhrc", <<<<1>>, <<0, 2>>>>), <<MCFGRuleElement("C", <<<<0>>>>), MCFGRuleElement("Swhrc", <<<<1>>, <<2>>>>)>>),   \* Sbarwhrc(v, uw) -> C(u) Swhrc(v, w)
      MCFGRule(MCFGRuleElement("VP", <<<<0, 1>>>>), <<MCFGRuleElement("Vpres", <<<<0>>>>), MCFGRuleElement("NP", <<<<1>>>>)>>),   \* VP(uv) -> Vpres(u) NP(v)
      MCFGRule(MCFGRuleElement("VP", <<<<0, 1>>>>), <<MCFGRuleElement("Vpres", <<<<0>>>>), MCFGRuleElement("Sbar", <<<<1>>>>)>>),   \* VP(uv) -> Vpres(u) Sbar(v)
      MCFGRule(MCFGRuleElement("VPwhmain", <<<<0>>, <<1>>>>), <<MCFGRuleElement("NPwh", <<<<0>>>>), MCFGRuleElement("Vroot", <<<<1>>>>)>>),   \* VPwhmain(u, v) -> NPwh(u) Vroot(v)
      MCFGRule(MCFGRuleElement("VPwhmain", <<<<0>>, <<2, 1>>>>), <<MCFGRuleElement("NPwhdisloc", <<<<0>>, <<1>>>>), MCFGRuleElement("Vroot", <<<<2>>>>)>>),   \* VPwhmain(u, wv) -> NPwhdisloc(u, v) Vroot(w)
      MCFGRule(MCFGRuleElement("VPwhmain", <<<<1>>, <<0, 2>>>>), <<MCFGRuleElement("Vroot", <<<<0>>>>), MCFGRuleElement("Sbarwh", <<<<1>>, <<2>>>>)>>),   \* VPwhmain(v, uw) -> Vroot(u) Sbarwh(v, w)
      MCFGRule(MCFGRuleElement("VPwhemb", <<<<0>>, <<1>>>>), <<MCFGRuleElement("NPwh", <<<<0>>>>), MCFGRuleElement("Vpres", <<<<1>>>>)>>),   \* VPwhemb(u, v) -> NPwh(u) Vpres(v)
      MCFGRule(MCFGRuleElement("VPwhemb", <<<<0>>, <<2, 1>>>>), <<MCFGRuleElement("NPwhdisloc", <<<<0>>, <<1>>>>), MCFGRuleElement("Vpres", <<<<2>>>>)>>),   \* VPwhemb(u, wv) -> NPwhdisloc(u, v) Vpres(w)
      MCFGRule(MCFGRuleElement("VPwhemb", <<<<1>>, <<0, 2>>>>), <<MCFGRuleElement("Vpres", <<<<0>>>>), MCFGRuleElement("Sbarwh", <<<<1>>, <<2>>>>)>>),   \* VPwhemb(v, uw) -> Vpres(u) Sbarwh(v, w)
      MCFGRule(MCFGRuleElement("VPrc", <<<<0>>, <<1>>>>), <<MCFGRuleElement("N", <<<<0>>>>), MCFGRuleElement("Vpres", <<<<1>>>>)>>),   \* VPrc(u, v) -> N(u) Vpres(v)
      MCFGRule(MCFGRuleElement("VPrc", <<<<1>>, <<0, 2>>>>), <<MCFGRuleElement("Vpres", <<<<0>>>>), MCFGRuleElement("Nrc", <<<<1>>, <<2>>>>)>>),   \* VPrc(v, uw) -> Vpres(u) Nrc(v, w)
      MCFGRule(MCFGRuleElement("VPwhrc", <<<<0>>, <<1>>>>), <<MCFGRuleElement("Nwh", <<<<0>>>>), MCFGRuleElement("Vpres", <<<<1>>>>)>>),   \* VPwhrc(u, v) -> Nwh(u) Vpres(v)
      MCFGRule(MCFGRuleElement("VPwhrc", <<<<1>>, <<0, 2>>>>), <<MCFGRuleElement("Vpres", <<<<0>>>>), MCFGRuleElement("Sbarwhrc", <<<<1>>, <<2>>>>)>>),   \* VPwhrc(v, uw) -> Vpres(u) Sbarwhrc(v, w)
      MCFGRule(MCFGRuleElement("NP", <<<<0, 1>>>>), <<MCFGRuleElement("D", <<<<0>>>>), MCFGRuleElement("N", <<<<1>>>>)>>),   \* NP(uv) -> D(u) N(v)
      MCFGRule(MCFGRuleElement("NP", <<<<0, 1, 2>>>>), <<MCFGRuleElement("D", <<<<0>>>>), MCFGRuleElement("Nrc", <<<<1>>, <<2>>>>)>>),   \* NP(uvw) -> D(u) Nrc(v, w)
      MCFGRule(MCFGRuleElement("NPdisloc", <<<<0, 1>>, <<2>>>>), <<MCFGRuleElement("D", <<<<0>>>>), MCFGRuleElement("Nrc", <<<<1>>, <<2>>>>)>>),   \* NPdisloc(uv, w) -> D(u) Nrc(v, w)
      MCFGRule(MCFGRuleElement("NPwh", <<<<0, 1>>>>), <<MCFGRuleElement("Dwh", <<<<0>>>>), MCFGRuleElement("N", <<<<1>>>>)>>),   \* NPwh(uv) -> Dwh(u) N(v)
      MCFGRule(MCFGRuleElement("NPwh", <<<<0, 1, 2>>>>), <<MCFGRuleElement("Dwh", <<<<0>>>>), MCFGRuleElement("Nrc", <<<<1>>, <<2>>>>)>>),   \* NPwh(uvw) -> Dwh(u) Nrc(v, w)
      MCFGRule(MCFGRuleElement("NPwhdisloc", <<<<0, 1>>, <<2>>>>), <<MCFGRuleElement("Dwh", <<<<0>>>>), MCFGRuleElement("Nrc", <<<<1>>, <<2>>>>)>>),   \* NPwhdisloc(uv, w) -> Dwh(u) Nrc(v, w)
      MCFGRule(MCFGRuleElement("Nrc", <<<<1>>, <<0, 2>>>>), <<MCFGRuleElement("C", <<<<0>>>>), MCFGRuleElement("Src", <<<<1>>, <<2>>>>)>>),   \* Nrc(v, uw) -> C(u) Src(v, w)
      MCFGRule(MCFGRuleElement("Nrc", <<<<0>>, <<1, 2>>>>), <<MCFGRuleElement("N", <<<<0>>>>), MCFGRuleElement("Swhrc", <<<<1>>, <<2>>>>)>>),   \* Nrc(u, vw) -> N(u) Swhrc(v, w)
      MCFGRule(MCFGRuleElement("Nrc", <<<<0>>, <<1, 2, 3>>>>), <<MCFGRuleElement("Nrc", <<<<0>>, <<1>>>>), MCFGRuleElement("Swhrc", <<<<2>>, <<3>>>>)>>),   \* Nrc(u, vwx) -> Nrc(u, v) Swhrc(w, x)
      MCFGRule(MCFGRuleElement("Dwh", <<<<"which">>>>), <<>>),   \* Dwh(which)
      MCFGRule(MCFGRuleElement("NPwh", <<<<"who">>>>), <<>>),   \* NPwh(who)
      MCFGRule(MCFGRuleElement("D", <<<<"the">>>>), <<>>),   \* D(the)
      MCFGRule(MCFGRuleElement("D", <<<<"a">>>>), <<>>),   \* D(a)
      MCFGRule(MCFGRuleElement("N", <<<<"greyhound">>>>), <<>>),   \* N(greyhound)
      MCFGRule(MCFGRuleElement("N", <<<<"human">>>>), <<>>),   \* N(human)
      MCFGRule(MCFGRuleElement("Vpres", <<<<"believes">>>>), <<>>),   \* Vpres(believes)
      MCFGRule(MCFGRuleElement("Vroot", <<<<"believe">>>>), <<>>),   \* Vroot(believe)
      MCFGRule(MCFGRuleElement("Aux", <<<<"does">>>>), <<>>),   \* Aux(does)
      MCFGRule(MCFGRuleElement("C", <<<<"that">>>>), <<>>)   \* C(that)
  >>

ScenarioARules ==
  << MCFGRule(MCFGRuleElement("S", <<<<0, 1>>>>), <<MCFGRuleElement("NP", <<<<0>>>>), MCFGRuleElement("VP", <<<<1>>>>)>>),  \* S(uv) -> NP(u) VP(v)
     MCFGRule(MCFGRuleElement("NP", <<<<0, 1>>>>), <<MCFGRuleElement("D", <<<<0>>>>), MCFGRuleElement("N", <<<<1>>>>)>>),   \* NP(uv) -> D(u) N(v)
     MCFGRule(MCFGRuleElement("VP", <<<<0>>>>), <<MCFGRuleElement("V", <<<<0>>>>)>>),   \* VP(u) -> V(u)
     MCFGRule(MCFGRuleElement("D", <<<<"the">>>>), <<>>),     \* D(the)
     MCFGRule(MCFGRuleElement("N", <<<<"dog">>>>), <<>>),     \* N(dog)
     MCFGRule(MCFGRuleElement("V", <<<<"barks">>>>), <<>>) >> \* V(barks)

BinaryRules ==
  << MCFGRule(MCFGRuleElement("S", <<<<0, 1>>>>), <<MCFGRuleElement("A", <<<<0>>>>), MCFGRuleElement("B", <<<<1>>>>)>>),  \* S(uv) -> A(u) B(v)
     MCFGRule(MCFGRuleElement("A", <<<<"a">>>>), <<>>),     \* A(a)
     MCFGRule(MCFGRuleElement("B", <<<<"b">>>>), <<>>) >>   \* B(b)

RecursiveRules ==
  << MCFGRule(MCFGRuleElement("S", <<<<0, 1>>>>), <<MCFGRuleElement("S", <<<<0>>>>), MCFGRuleElement("S", <<<<1>>>>)>>),  \* S(uv) -> S(u) S(v)
     MCFGRule(MCFGRuleElement("S", <<<<"a">>>>), <<>>) >>   \* S(a)

AmbiguousRules ==
  << MCFGRule(MCFGRuleElement("S", <<<<0, 1>>>>), <<MCFGRuleElement("B", <<<<0>>>>), MCFGRuleElement("C", <<<<1>>>>)>>),  \* S(uv) -> B(u) C(v)
     MCFGRule(MCFGRuleElement("S", <<<<0, 1>>>>), <<MCFGRuleElement("B", <<<<0>>>>), MCFGRuleElement("B", <<<<1>>>>)>>),  \* S(uv) -> B(u) B(v)
     MCFGRule(MCFGRuleElement("B", <<<<"a">>>>), <<>>),     \* B(a)
     MCFGRule(MCFGRuleElement("C", <<<<"a">>>>), <<>>) >>   \* C(a)

StartTRules ==
  << MCFGRule(MCFGRuleElement("T", <<<<0, 1>>>>), <<MCFGRuleElement("S", <<<<0>>>>), MCFGRuleElement("B", <<<<1>>>>)>>),  \* T(uv) -> S(u) B(v)
     MCFGRule(MCFGRuleElement("S", <<<<"a">>>>), <<>>),     \* S(a)
     MCFGRule(MCFGRuleElement("B", <<<<"b">>>>), <<>>) >>   \* B(b)

SwapRules ==
  << MCFGRule(MCFGRuleElement("S", <<<<1, 0>>>>), <<MCFGRuleElement("A", <<<<0>>>>), MCFGRuleElement("B", <<<<1>>>>)>>),  \* S(vu) -> A(u) B(v)
     MCFGRule(MCFGRuleElement("A", <<<<"a">>>>), <<>>),     \* A(a)
     MCFGRule(MCFGRuleElement("B", <<<<"b">>>>), <<>>) >>   \* B(b)

UnalignedRules ==
  << MCFGRule(MCFGRuleElement("S", <<<<0, 1, 2>>>>), <<MCFGRuleElement("A", <<<<0, 1>>>>), MCFGRuleElement("B", <<<<2>>>>)>>),
     MCFGRule(MCFGRuleElement("A", <<<<"a">>>>), <<>>),
     MCFGRule(MCFGRuleElement("B", <<<<"b">>>>), <<>>) >>

\* S(uv) -> A(u) B(v) next to the rule of UnalignedRules over the same
\* right side
MixedRules ==
  << MCFGRule(MCFGRuleElement("S", <<<<0, 1>>>>), <<MCFGRuleElement("A", <<<<0>>>>), MCFGRuleElement("B", <<<<1>>>>)>>),
     MCFGRule(MCFGRuleElement("S", <<<<0, 1, 2>>>>), <<MCFGRuleElement("A", <<<<0, 1>>>>), MCFGRuleElement("B", <<<<2>>>>)>>),
     MCFGRule(MCFGRuleElement("A", <<<<"a">>>>), <<>>),
     MCFGRule(MCFGRuleElement("B", <<<<"b">>>>), <<>>) >>

\* MCFGRule.from_string of "S(uv, u) -> A(u) B(v)", "A(a)", "B(b)"
ReuseRules ==
  << MCFGRule(MCFGRuleElement("S", <<<<0, 1>>, <<0>>>>), <<MCFGRuleElement("A", <<<<0>>>>), MCFGRuleElement("B", <<<<1>>>>)>>),
     MCFGRule(MCFGRuleElement("A", <<<<"a">>>>), <<>>),
     MCFGRule(MCFGRuleElement("B", <<<<"b">>>>), <<>>) >>

\* MCFGRule.from_string of "S(u, v, w) -> A(u) B(v) A(w)", "A(a)", "B(b)"
TernaryRules ==
  << MCFGRule(MCFGRuleElement("S", <<<<0>>, <<1>>, <<2>>>>), <<MCFGRuleElement("A", <<<<0>>>>), MCFGRuleElement("B", <<<<1>>>>), MCFGRuleElement("A", <<<<2>>>>)>>),
     MCFGRule(MCFGRuleElement("A", <<<<"a">>>>), <<>>),
     MCFGRule(MCFGRuleElement("B", <<<<"b">>>>), <<>>) >>

\* X(uv) -> A(u) A(v), a rule over X whose left side uses the index 1 that
\* only its first right-side element declares, and A(a)
LeftoverRules ==
  << MCFGRule(MCFGRuleElement("X", <<<<0, 1>>>>), <<MCFGRuleElement("A", <<<<0>>>>), MCFGRuleElement("A", <<<<1>>>>)>>),
     MCFGRule(MCFGRuleElement("S", <<<<0, 1, 2>>>>), <<MCFGRuleElement("X", <<<<0, 1>>>>), MCFGRuleElement("X", <<<<2>>>>)>>),
     MCFGRule(MCFGRuleElement("A", <<<<"a">>>>), <<>>) >>

\* MCFGRule.from_string of "S(uv) -> B(u) C(v)", "S(uv) -> B(u) B(v)",
\* "T(u, v) -> S(u) B(v)", "B(a)", "C(a)"
AmbiguousChildRules ==
  << MCFGRule(MCFGRuleElement("S", <<<<0, 1>>>>), <<MCFGRuleElement("B", <<<<0>>>>), MCFGRuleElement("C", <<<<1>>>>)>>),
     MCFGRule(MCFGRuleElement("S", <<<<0, 1>>>>), <<MCFGRuleElement("B", <<<<0>>>>), MCFGRuleElement("B", <<<<1>>>>)>>),
     MCFGRule(MCFGRuleElement("T", <<<<0>>, <<1>>>>), <<MCFGRuleElement("S", <<<<0>>>>), MCFGRuleElement("B", <<<<1>>>>)>>),
     MCFGRule(MCFGRuleElement("B", <<<<"a">>>>), <<>>),
     MCFGRule(MCFGRuleElement("C", <<<<"a">>>>), <<>>) >>

\* MCFGRule(MCFGRuleElement("A", (0, 1)), MCFGRuleElement("B", (0,), (0,)),
\* MCFGRuleElement("C", (1,))), and from_string of "B(u, v) -> D(u) E(v)",
\* "D(a)", "E(a)", "C(b)"
RepeatRules ==
  << MCFGRule(MCFGRuleElement("A", <<<<0, 1>>>>), <<MCFGRuleElement("B", <<<<0>>, <<0>>>>), MCFGRuleElement("C", <<<<1>>>>)>>),
     MCFGRule(MCFGRuleElement("B", <<<<0>>, <<1>>>>), <<MCFGRuleElement("D", <<<<0>>>>), MCFGRuleElement("E", <<<<1>>>>)>>),
     MCFGRule(MCFGRuleElement("D", <<<<"a">>>>), <<>>),
     MCFGRule(MCFGRuleElement("E", <<<<"a">>>>), <<>>),
     MCFGRule(MCFGRuleElement("C", <<<<"b">>>>), <<>>) >>

GrammarNames ==
  {"Greyhound", "ScenarioA", "Binary", "Recursive", "Ambiguous", "StartT",
   "Swap", "Unaligned", "Mixed", "Reuse", "Ternary", "Leftover",
   "AmbiguousChild", "Repeat"}

\* MCFGGrammar(alphabet, variables, rules, start_variable), before validation
MCFGGrammar(alphabet, variables, rules, start_variable) ==
  [alphabet |-> alphabet, variables |-> variables, rules |-> rules,
   start_variable |-> start_variable]

RulesOf(g) ==
  CASE g = "Greyhound" -> GreyhoundRules
    [] g = "ScenarioA" -> ScenarioARules
    [] g = "Binary" -> BinaryRules
    [] g = "Recursive" -> RecursiveRules
    [] g = "Ambiguous" -> AmbiguousRules
    [] g = "StartT" -> StartTRules
    [] g = "Swap" -> SwapRules
    [] g = "Unaligned" -> UnalignedRules
    [] g = "Mixed" -> MixedRules
    [] g = "Reuse" -> ReuseRules
    [] g = "Ternary" -> TernaryRules
    [] g = "Leftover" -> LeftoverRules
    [] g = "AmbiguousChild" -> AmbiguousChildRules
    [] g = "Repeat" -> RepeatRules

Grammar(g) ==
  CASE g = "Greyhound" ->
         MCFGGrammar({"which", "who", "the", "a", "greyhound", "human",
                      "believes", "believe", "does", "that"},
                     {"S", "Sbar", "Sbarwh", "Swhmain", "Swhemb", "Src",
                      "Swhrc", "VP", "VPwhmain", "VPwhemb", "VPrc", "VPwhrc",
                      "NP", "NPdisloc", "NPwh", "Nrc"},
                     RulesOf(g), "S")
    [] g = "ScenarioA" ->
         MCFGGrammar({"the", "dog", "barks"}, {"S", "NP", "VP", "D", "N", "V"},
                     RulesOf(g), "S")
    [] g = "Binary" ->
         MCFGGrammar({"a", "b"}, {"S", "A", "B"}, RulesOf(g), "S")
    [] g = "Recursive" ->
         MCFGGrammar({"a"}, {"S"}, RulesOf(g), "S")
    [] g = "Ambiguous" ->
         MCFGGrammar({"a"}, {"S", "B", "C"}, RulesOf(g), "S")
    [] g = "StartT" ->
         MCFGGrammar({"a", "b"}, {"T", "S", "B"}, RulesOf(g), "T")
    [] g = "Swap" ->
         MCFGGrammar({"a", "b"}, {"S", "A", "B"}, RulesOf(g), "S")
    [] g = "Unaligned" ->
         MCFGGrammar({"a", "b"}, {"S", "A", "B"}, RulesOf(g), "S")
    [] g = "Mixed" ->
         MCFGGrammar({"a", "b"}, {"S", "A", "B"}, RulesOf(g), "S")
    [] g = "Reuse" ->
         MCFGGrammar({"a", "b"}, {"S", "A", "B"}, RulesOf(g), "S")
    [] g = "Ternary" ->
         MCFGGrammar({"a", "b"}, {"S", "A", "B"}, RulesOf(g), "S")
    [] g = "Leftover" ->
         MCFGGrammar({"a"}, {"S", "X", "A"}, RulesOf(g), "S")
    [] g = "AmbiguousChild" ->
         MCFGGrammar({"a"}, {"S", "T", "B", "C"}, RulesOf(g), "S")
    [] g = "Repeat" ->
         MCFGGrammar({"a", "b"}, {"A", "B", "C", "D", "E"}, RulesOf(g), "A")

\* a validation that does not look at the start variable
grammar_validate_rules(gr) ==
  /\ (gr.alphabet \cap gr.variables) = {}
  /\ \A k \in 1..Len(gr.rules) : rule_validate(gr.rules[k])

\* MCFGGrammar._validate_variables and _validate_rules: TRUE when the
\* constructor raises nothing
grammar_validate(gr) ==
  /\ (gr.alphabet \cap gr.variables) = {}
  /\ gr.start_variable \in gr.variables
  /\ \A k \in 1..Len(gr.rules) : rule_validate(gr.rules[k])

\* the token sequences parse is called with, per grammar
Sentences(g) ==
  CASE g = "Greyhound" ->
         {<<"who", "does", "the", "greyhound", "believe">>,
          <<"the", "greyhound", "believes", "the", "human">>,
          <<"who", "believes", "that", "zzz">>}
    [] g = "ScenarioA" ->
         {<<"the", "dog", "barks">>, <<"the", "dog">>, <<"barks", "zzz">>}
    [] OTHER -> SeqsUpTo({"a", "b"}, MaxLen)

\* the orders in which iterating grammar.rules can yield the rules
RuleOrders(g) ==
  LET n == Len(RulesOf(g))
  IN  IF n <= MaxPermRules THEN AllOrders(n)
      ELSE {[i \in 1..n |-> i], Reverse(n)}

\* --------------------------------- grammar.py: MCFGRule.instantiate_left_side
\* the outcome of a call: the returned instance, or the exception raised
NoInstance == MCFGRuleElementInstance("", <<>>)
Return(instance) == [error |-> "none", instance |-> instance]
Raise(error) == [error |-> error, instance |-> NoInstance]

\* an alignment check that does not compare the nonterminal names
right_side_aligns_arities(rule, right_side) ==
  /\ Len(right_side) = Len(rule.right_side)
  /\ \A k \in 1..Len(right_side) :
       Len(rule.right_side[k].string_variables) = Len(right_side[k].string_spans)

\* MCFGRule._right_side_aligns
right_side_aligns(rule, right_side) ==
  IF Len(right_side) = Len(rule.right_side)
  THEN LET vars_match ==
             \A k \in 1..Len(right_side) :
               rule.right_side[k].variable = right_side[k].variable
           strvars_match ==
             \A k \in 1..Len(right_side) :
               Len(rule.right_side[k].string_variables) =
                 Len(right_side[k].string_spans)
       IN  vars_match /\ strvars_match
  ELSE FALSE

\* MCFGRule._build_span_map on an aligned right side: the (strvar[0], strspan)
\* pairs in the order the dict comprehension yields them
build_span_map(rule, right_side) ==
  Concat([k \in 1..Len(right_side) |->
            [j \in 1..Len(right_side[k].string_spans) |->
               [strvar  |-> rule.right_side[k].string_variables[j][1],
                strspan |-> right_side[k].string_spans[j]]]])

\* v in span_map
Bound(span_map, v) == \E k \in 1..Len(span_map) : span_map[k].strvar = v

\* span_map[v]: in a dict comprehension the last pair of a key is the one kept
Lookup(span_map, v) ==
  LET ks == {k \in 1..Len(span_map) : span_map[k].strvar = v}
  IN  span_map[CHOOSE k \in ks : \A k2 \in ks : k2 <= k].strspan

\* the exception the body of `for vs in left_side.string_variables` raises for
\* one argument group vs, "none" when it appends a span
GroupError(vs, span_map) ==
  LET bad == {i \in 2..Len(vs) :
                \/ ~Bound(span_map, vs[i-1])
                \/ ~Bound(span_map, vs[i])
                \/ Lookup(span_map, vs[i-1])[2] # Lookup(span_map, vs[i])[1]}
  IN  IF bad # {}
      THEN LET i == Min(bad)
           IN  IF ~Bound(span_map, vs[i-1]) \/ ~Bound(span_map, vs[i])
               THEN "KeyError" ELSE "ValueError"
      ELSE IF Len(vs) = 0 THEN "IndexError"
      ELSE IF ~Bound(span_map, vs[1]) THEN "KeyError"
      ELSE "none"

\* a group's span ended at the end of its first index's span
GroupSpanFirstIndex(vs, span_map) ==
  <<Lookup(span_map, vs[1])[1], Lookup(span_map, vs[1])[2]>>

\* a group's span begun at the begin of its last index's span
GroupSpanLastIndex(vs, span_map) ==
  <<Lookup(span_map, vs[Len(vs)])[1], Lookup(span_map, vs[Len(vs)])[2]>>

\* (begin_span, end_span) of one argument group
GroupSpan(vs, span_map) ==
  <<Lookup(span_map, vs[1])[1], Lookup(span_map, vs[Len(vs)])[2]>>

\* the spans computed from span_map for the left side's argument groups
LeftSideSpans(left, span_map) ==
  LET groups == left.string_variables
      failing == {g \in 1..Len(groups) :
                    GroupError(groups[g], span_map) # "none"}
  IN  IF failing # {}
      THEN Raise(GroupError(groups[Min(failing)], span_map))
      ELSE Return(MCFGRuleElementInstance(left.variable,
             [g \in 1..Len(groups) |-> GroupSpan(groups[g], span_map)]))

instantiate_left_side(rule, right_side) ==
  LET left == rule.left_side
      groups == left.string_variables
  IN
  IF is_epsilon(rule) /\ \E g \in 1..Len(groups) : Len(groups[g]) = 0
  THEN Raise("IndexError")
  ELSE IF /\ is_epsilon(rule)
          /\ [k \in 1..Len(right_side) |-> right_side[k].variable] =
               [g \in 1..Len(groups) |-> groups[g][1]]
  THEN Return(MCFGRuleElementInstance(left.variable,
         Concat([k \in 1..Len(right_side) |-> right_side[k].string_spans])))
  ELSE IF ~right_side_aligns(rule, right_side)
  THEN Raise("ValueError")
  ELSE IF \E k \in 1..Len(rule.right_side) :
            \E j \in 1..Len(rule.right_side[k].string_variables) :
              Len(rule.right_side[k].string_variables[j]) = 0
  THEN Raise("IndexError")
  ELSE The({LeftSideSpans(left, span_map) :
             span_map \in {build_span_map(rule, right_side)}})

\* ------------------------------------------------------ parser.py: chart
\* MCFGChartEntry(instance, rule, backpointers); rule is the rule's position
\* in the grammar's rule text, NoRule for rule=None
NoRule == 0
MCFGChartEntry(instance, rule, backpointers) ==
  [instance |-> instance, rule |-> rule, backpointers |-> backpointers]

\* entries compared with their rule and backpointers
EntryEqDerivation(e1, e2) == e1 = e2

\* MCFGChartEntry.__eq__ (and __hash__): the instance alone
EntryEq(e1, e2) ==
  /\ e1.instance.variable = e2.instance.variable
  /\ e1.instance.string_spans = e2.instance.string_spans

\* MCFGChart._key
Key(entry) == <<entry.instance.variable, entry.instance.string_spans>>

\* an add that keeps the fact added last
SetAddLastWins(entries, entry) ==
  {e \in entries : ~EntryEq(e, entry)} \cup {entry}

\* an add that keeps, of two equal facts, the one with the lower rule number
SetAddLowestRule(entries, entry) ==
  IF \E e \in entries : EntryEq(e, entry) /\ e.rule <= entry.rule
  THEN entries
  ELSE {e \in entries : ~EntryEq(e, entry)} \cup {entry}

\* set.add on a set of MCFGChartEntry
SetAdd(entries, entry) ==
  IF \E e \in entries : EntryEq(e, entry) THEN entries
  ELSE entries \cup {entry}

\* MCFGChart.add; _entries is kept as its items in insertion order
add(entries, entry) ==
  LET at == {k \in 1..Len(entries) : entries[k].key = Key(entry)}
  IN  IF at # {}
      THEN [entries EXCEPT ![Min(at)].entries = SetAdd(@, entry)]
      ELSE Append(entries, [key |-> Key(entry), entries |-> {entry}])

\* a lookup that returns the facts of every nonterminal
get_by_symbol_all(entries, symbol) ==
  Concat([k \in 1..Len(entries) |-> SetToSeq(entries[k].entries)])

\* MCFGChart.get_by_symbol
get_by_symbol(entries, symbol) ==
  Concat([k \in 1..Len(entries) |->
            IF entries[k].key[1] = symbol THEN SetToSeq(entries[k].entries)
            ELSE <<>>])

\* ----------------------------------------------------------- tree.py: Tree
Tree(data, children) == [data |-> data, children |-> children]

\* MCFGChartEntry.to_tree
RECURSIVE to_tree(_)
to_tree(entry) ==
  Tree(entry.instance.variable,
       [k \in 1..Len(entry.backpointers) |-> to_tree(entry.backpointers[k])])

\* Tree.terminals
RECURSIVE terminals(_)
terminals(tree) ==
  IF Len(tree.children) > 0
  THEN Concat([k \in 1..Len(tree.children) |-> terminals(tree.children[k])])
  ELSE <<tree.data>>

\* MCFGChart.parses
parses(entries) ==
  UNION {{to_tree(e) : e \in entries[k].entries} :
           k \in {k \in 1..Len(entries) : entries[k].key[1] = "S"}}

\* ----------------------------------------------- parser.py: the parser
\* grammar: the MCFGGrammar the parser was constructed with (its name);
\* order: the order in which iterating grammar.rules yields the rules;
\* tokens, chart (chart._entries), agenda: the fields of the parser object;
\* trigger: the local of parse holding the fact popped last;
\* pc: where the last parse call stands; calls: parse calls made so far;
\* results: what the parse calls that returned have returned, in call order;
\* call: the call of a library operation made outside parse (its operation,
\* arguments and outcome), NoCall on a parser.
VARIABLES grammar, order, tokens, chart, agenda, trigger, pc, calls, results,
          call

vars == <<grammar, order, tokens, chart, agenda, trigger, pc, calls, results,
          call>>

NoCall == [op |-> "none", done |-> TRUE]

Rules == RulesOf(grammar)

NoEntry == MCFGChartEntry(NoInstance, NoRule, <<>>)

\* one pass of the body of the two loops of _initialize_agenda, for token
\* position i (from 0) and the rule numbered r: the exception it raises, or
\* the entry it appends, or nothing
SeedOne(toks, i, r) ==
  LET rule == Rules[r]
      groups == rule.left_side.string_variables
      none == [error |-> "none", found |-> FALSE, entry |-> NoEntry]
      terminal == groups[1][1]
      instance == MCFGRuleElementInstance(terminal, <<<<i, i + 1>>>>)
      Entered(lhs) ==
        IF lhs.error # "none" THEN [none EXCEPT !.error = lhs.error]
        ELSE [none EXCEPT !.found = TRUE,
                !.entry = MCFGChartEntry(lhs.instance, r,
                            <<MCFGChartEntry(instance, NoRule, <<>>)>>)]
  IN
  IF ~is_epsilon(rule) THEN none
  ELSE IF Len(groups) = 0 \/ Len(groups[1]) = 0
  THEN [none EXCEPT !.error = "IndexError"]
  ELSE IF terminal # toks[i + 1] THEN none
  ELSE The({Entered(lhs) :
             lhs \in {instantiate_left_side(rule, <<instance>>)}})

\* self.agenda.append(entry); self.chart.add(entry) for entries[k] and the
\* entries after it, in turn
RECURSIVE AppendAndAdd(_, _, _)
AppendAndAdd(st, entries, k) ==
  IF k > Len(entries) THEN st
  ELSE AppendAndAdd([st EXCEPT !.agenda = Append(@, entries[k]),
                               !.chart = add(@, entries[k])],
                    entries, k + 1)

\* the passes of _initialize_agenda that run: those before the first that
\* raises; ag and ch are the agenda and the chart it starts from
SeedPasses(pass, ag, ch) ==
  LET raising == {p \in 1..Len(pass) : pass[p].error # "none"}
      stop == IF raising = {} THEN Len(pass) + 1 ELSE Min(raising)
      appending == {p \in 1..Len(pass) : p < stop /\ pass[p].found}
      Appends(p) == p \in appending
      done == SelectSeq([p \in 1..Len(pass) |-> p], Appends)
  IN  The({AppendAndAdd([agenda |-> ag, chart |-> ch,
            error |-> IF raising = {} THEN "none"
            ELSE pass[stop].error],
            entries, 1) :
            entries \in {[k \in 1..Len(done) |-> pass[done[k]].entry]}})

\* AgendaBasedMCFGParser._initialize_agenda: the passes for i, token in
\* enumerate(tokens), for rule in grammar.rules
initialize_agenda(toks, ag, ch) ==
  LET n == Len(Rules)
  IN  The({SeedPasses(pass, ag, ch) :
            pass \in {[p \in 1..(Len(toks) * n) |->
                  SeedOne(toks, (p - 1) \div n, order[((p - 1) % n) + 1])]}})

\* an attempt that records the backpointers in the opposite order
AttemptSwapped(r, b_entry, c_entry) ==
  The({[error |-> inst.error,
        entry |-> MCFGChartEntry(inst.instance, r, <<c_entry, b_entry>>)] :
        inst \in {instantiate_left_side(Rules[r], <<b_entry.instance, c_entry.instance>>)}})

\* one instantiate_left_side call of _infer, with the entry it would append
Attempt(r, b_entry, c_entry) ==
  The({[error |-> inst.error,
        entry |-> MCFGChartEntry(inst.instance, r, <<b_entry, c_entry>>)] :
        inst \in {instantiate_left_side(Rules[r], <<b_entry.instance, c_entry.instance>>)}})

\* attempts that pair the trigger only as the first right-side element
AttemptsAsB(trig, entries, r) ==
  LET B == Rules[r].right_side[1]
      C == Rules[r].right_side[2]
      AsB(cs) == [k \in 1..Len(cs) |-> Attempt(r, trig, cs[k])]
  IN  IF trig.instance.variable = B.variable
      THEN The({AsB(cs) : cs \in {get_by_symbol(entries, C.variable)}})
      ELSE <<>>

\* the instantiate_left_side calls _infer makes for the two-element rule
\* numbered r, in order
Attempts(trig, entries, r) ==
  LET B == Rules[r].right_side[1]
      C == Rules[r].right_side[2]
      AsB(cs) == [k \in 1..Len(cs) |-> Attempt(r, trig, cs[k])]
      AsC(bs) == [k \in 1..Len(bs) |-> Attempt(r, bs[k], trig)]
  IN  (IF trig.instance.variable = B.variable
       THEN The({AsB(cs) :
                  cs \in {get_by_symbol(entries, C.variable)}}) ELSE <<>>) \o
      (IF trig.instance.variable = C.variable
       THEN The({AsC(bs) :
                  bs \in {get_by_symbol(entries, B.variable)}}) ELSE <<>>)

\* what _infer does with its attempts: new_entries, or the exception that
\* leaves it (a ValueError is caught; any other exception is not)
Inferred(all) ==
  LET uncaught == {k \in 1..Len(all) : all[k].error \notin {"none", "ValueError"}}
      Succeeded(a) == a.error = "none"
  IN  IF uncaught # {}
      THEN [error |-> all[Min(uncaught)].error, new_entries |-> <<>>]
      ELSE [error |-> "none",
            new_entries |->
              The({[k \in 1..Len(ok) |-> ok[k].entry] :
                    ok \in {SelectSeq(all, Succeeded)}})]

\* an _infer that also applies the rules with one right-side element
infer_unary(trig, entries) ==
  LET Unary(r) ==
        /\ Len(Rules[r].right_side) = 1
        /\ trig.instance.variable = Rules[r].right_side[1].variable
      Built(r) ==
        The({[error |-> inst.error,
              entry |-> MCFGChartEntry(inst.instance, r, <<trig>>)] :
              inst \in {instantiate_left_side(Rules[r], <<trig.instance>>)}})
      Applies(r) ==
        /\ Len(Rules[r].right_side) = 2
        /\ trig.instance.variable \in
             {Rules[r].right_side[1].variable, Rules[r].right_side[2].variable}
      All(r) == IF Unary(r) THEN <<Built(r)>>
                ELSE IF Applies(r) THEN Attempts(trig, entries, r) ELSE <<>>
  IN  Inferred(Concat([k \in 1..Len(order) |-> All(order[k])]))

\* AgendaBasedMCFGParser._infer
infer(trig, entries) ==
  LET Applies(r) ==
        /\ Len(Rules[r].right_side) = 2
        /\ trig.instance.variable \in
             {Rules[r].right_side[1].variable, Rules[r].right_side[2].variable}
  IN  The({The({Inferred(all) :
            all \in {Concat([k \in 1..Len(applying) |->
            Attempts(trig, entries, applying[k])])}}) :
            applying \in {SelectSeq(order, Applies)}})

\* the body of `while self.agenda` on agenda ag and chart ch
step(ag, ch) ==
  The({The({[trigger |-> Head(ag), chart |-> ch2,
        agenda |-> Tail(ag) \o inf.new_entries, error |-> inf.error] :
        inf \in {infer(Head(ag), ch2)}}) :
        ch2 \in {add(ch, Head(ag))}})

\* the while loop of parse run from agenda/chart state st until the agenda is
\* empty or an exception leaves it
RECURSIVE RunLoop(_)
RunLoop(st) ==
  IF st.error # "none" \/ Len(st.agenda) = 0 THEN st
  ELSE The({RunLoop([agenda |-> nx.agenda, chart |-> nx.chart,
             error |-> nx.error]) :
             nx \in {step(st.agenda, st.chart)}})

\* AgendaBasedMCFGParser(grammar).parse(toks) on a newly constructed parser:
\* the exception raised ("none" when it returns) and the trees returned
FreshParse(toks) ==
  The({The({[error |-> st.error,
        trees |-> IF st.error = "none" THEN parses(st.chart)
        ELSE {}] :
        st \in {RunLoop(seeded)}}) :
        seeded \in {initialize_agenda(toks, <<>>, <<>>)}})

\* AgendaBasedMCFGParser.__init__
Init ==
  /\ grammar \in {g \in GrammarNames : grammar_validate(Grammar(g))}
  /\ order \in RuleOrders(grammar)
  /\ tokens = <<>>
  /\ chart = <<>>
  /\ agenda = <<>>
  /\ trigger = NoEntry
  /\ pc = "constructed"
  /\ calls = 0
  /\ results = <<>>
  /\ call = NoCall

\* parse(tokens) up to the while loop: self.tokens = tokens; _initialize_agenda()
Seed(toks) ==
  /\ pc # "running"
  /\ calls < MaxCalls
  /\ tokens' = toks
  /\ \E st \in {initialize_agenda(toks, agenda, chart)} :
         /\ agenda' = st.agenda
         /\ chart' = st.chart
         /\ pc' = IF st.error = "none" THEN "running" ELSE "raised"
  /\ calls' = calls + 1
  /\ UNCHANGED <<grammar, order, trigger, results, call>>

\* one pass of `while self.agenda`: popleft, chart.add, _infer, append
Step ==
  /\ pc = "running"
  /\ agenda # <<>>
  /\ \E st \in {step(agenda, chart)} :
         /\ trigger' = st.trigger
         /\ chart' = st.chart
         /\ agenda' = st.agenda
         /\ pc' = IF st.error = "none" THEN "running" ELSE "raised"
  /\ UNCHANGED <<grammar, order, tokens, calls, results, call>>

\* the loop ends: return self.chart.parses
Halt ==
  /\ pc = "running"
  /\ agenda = <<>>
  /\ results' = Append(results, [tokens |-> tokens, trees |-> parses(chart)])
  /\ pc' = "returned"
  /\ UNCHANGED <<grammar, order, tokens, chart, agenda, trigger, calls, call>>

Next ==
  \/ \E toks \in Sentences(grammar) : Seed(toks)
  \/ Step
  \/ Halt

Spec == Init /\ [][Next]_vars

\* the parser constructed with the grammar of main.py and test_parser.py
InitGreyhound == Init /\ grammar = "Greyhound"

SpecGreyhound == InitGreyhound /\ [][Next]_vars


\* ------------------------------------------- calls of the library operations
\* Bounds of the arguments the operations are called with.
\* largest string-variable index of a constructed rule element
MaxIndex == 2
\* most indices in the argument groups of a left side
MaxLeft == 3
\* most indices in the argument groups of a right-side element
MaxRight == 2
\* largest token position of a child span
MaxPos == 2
\* most facts added to a chart before get_by_symbol is called
MaxAdds == 3
\* deepest tree Tree.rules is called on (a leaf has depth 0)
MaxDepth == 2

SeqsFromTo(W, lo, hi) == UNION {[1..k -> W] : k \in lo..hi}

\* the string_variables of an element: one or two argument groups, each a
\* non-empty tuple of indices, with at most n indices in all
GroupTuples(n) ==
  {gs \in SeqsFromTo(SeqsFromTo(0..MaxIndex, 1, n), 1, 2) :
     Len(Concat(gs)) <= n}

\* the arguments of MCFGRule(left_side, *right_side): rules over indices with
\* up to two right-side elements
IndexRuleArguments ==
  {[left_side |-> MCFGRuleElement("A", l), right_side |-> rs] :
     l \in GroupTuples(MaxLeft),
     rs \in {<<>>} \cup
            {<<MCFGRuleElement("B", b)>> : b \in GroupTuples(MaxRight)} \cup
            {<<MCFGRuleElement("B", b), MCFGRuleElement("C", c)>> :
               b \in GroupTuples(MaxRight), c \in GroupTuples(MaxRight)}}

\* and the rules of a terminal
TerminalRuleArguments ==
  {[left_side |-> MCFGRuleElement("A", <<<<w>>>>), right_side |-> <<>>] :
     w \in {"a", "b"}}

\* MCFGRule.__init__: the exception _validate raises, "none" when the rule is
\* constructed
MCFGRule_init(left_side, right_side) ==
  IF rule_validate(MCFGRule(left_side, right_side))
  THEN [error |-> "none"] ELSE [error |-> "ValueError"]

\* the rules instantiate_left_side is called on, numbered from 1; each is
\* constructed without a ValueError
InstantiateRules ==
  << \* A(wx) -> B(w) C(x)
    MCFGRule(MCFGRuleElement("A", <<<<0, 1>>>>),
             <<MCFGRuleElement("B", <<<<0>>>>), MCFGRuleElement("C", <<<<1>>>>)>>),
    \* A(w1u, x1v) -> B(w1, x1) C(u, v)
    MCFGRule(MCFGRuleElement("A", <<<<0, 2>>, <<1, 3>>>>),
             <<MCFGRuleElement("B", <<<<0>>, <<1>>>>),
               MCFGRuleElement("C", <<<<2>>, <<3>>>>)>>),
    \* A(xw) -> B(w) C(x)
    MCFGRule(MCFGRuleElement("A", <<<<1, 0>>>>),
             <<MCFGRuleElement("B", <<<<0>>>>), MCFGRuleElement("C", <<<<1>>>>)>>),
    \* A(w) -> B(w)
    MCFGRule(MCFGRuleElement("A", <<<<0>>>>), <<MCFGRuleElement("B", <<<<0>>>>)>>),
    \* A(a)
    MCFGRule(MCFGRuleElement("A", <<<<"a">>>>), <<>>),
    \* MCFGRule(MCFGRuleElement("A", (0, 2, 1)), MCFGRuleElement("B", (0, 1)),
    \*          MCFGRuleElement("C", (2,)))
    MCFGRule(MCFGRuleElement("A", <<<<0, 2, 1>>>>),
             <<MCFGRuleElement("B", <<<<0, 1>>>>), MCFGRuleElement("C", <<<<2>>>>)>>),
    \* MCFGRule(MCFGRuleElement("A", (1,), (0, 2)), MCFGRuleElement("B", (0, 1)),
    \*          MCFGRuleElement("C", (2,)))
    MCFGRule(MCFGRuleElement("A", <<<<1>>, <<0, 2>>>>),
             <<MCFGRuleElement("B", <<<<0, 1>>>>), MCFGRuleElement("C", <<<<2>>>>)>>),
    \* MCFGRule(MCFGRuleElement("A", (0,)), MCFGRuleElement("B", (0,), (0,)))
    MCFGRule(MCFGRuleElement("A", <<<<0>>>>),
             <<MCFGRuleElement("B", <<<<0>>, <<0>>>>)>>) >>

\* the spans (begin, end) over the token positions 0..MaxPos
Spans == {<<b, e>> : b \in 0..MaxPos, e \in 0..MaxPos} \cap
         {s \in (0..MaxPos) \X (0..MaxPos) : s[1] < s[2]}

\* the instances given as children: up to two spans each
ChildInstances ==
  {MCFGRuleElementInstance(v, ss) :
     v \in {"B", "C", "a"}, ss \in SeqsFromTo(Spans, 0, 2)}

\* the arguments of the instantiate_left_side calls of test_grammar.py and of
\* the rule A(wx) -> B(w) C(x) on B = (0,2) with C = (2,5) and with C = (3,5);
\* rule is the rule's number
ExampleInstantiations ==
  LET concat == 1
      test == 2
  IN  {[rule |-> test,
        right_side |-> <<MCFGRuleElementInstance("B", <<<<1, 2>>, <<5, 7>>>>),
                         MCFGRuleElementInstance("C", <<<<2, 4>>, <<7, 8>>>>)>>],
       [rule |-> concat,
        right_side |-> <<MCFGRuleElementInstance("B", <<<<0, 2>>>>),
                         MCFGRuleElementInstance("C", <<<<2, 5>>>>)>>],
       [rule |-> concat,
        right_side |-> <<MCFGRuleElementInstance("B", <<<<0, 2>>>>),
                         MCFGRuleElementInstance("C", <<<<3, 5>>>>)>>]}

\* the children of the other instantiate_left_side calls: up to two instances
ChildTuples == SeqsFromTo(ChildInstances, 0, 2)

\* the arguments of MCFGGrammar(alphabet, variables, rules, start_variable)
GrammarArguments ==
  {MCFGGrammar(al, vs, rs, st) :
     al \in SUBSET {"a", "b", "S"}, vs \in SUBSET {"S", "A", "a"},
     rs \in {<<>>, BinaryRules}, st \in {"S", "A", "a", "Z"}}

\* MCFGGrammar.__init__: the exception raised, "none" when the grammar is
\* constructed
MCFGGrammar_init(gr) ==
  IF grammar_validate(gr) THEN [error |-> "none"] ELSE [error |-> "ValueError"]

\* the facts added to a chart
AddedEntries ==
  LET leaf == MCFGChartEntry(MCFGRuleElementInstance("the", <<<<0, 1>>>>),
                             NoRule, <<>>)
  IN  {MCFGChartEntry(MCFGRuleElementInstance(v, <<s>>), NoRule, bp) :
         v \in {"NP", "VP"}, s \in {<<0, 1>>, <<1, 3>>}, bp \in {<<>>, <<leaf>>}}

\* chart.add(adds[k]) for k from 1 on, in turn, on a new MCFGChart
RECURSIVE ChartOf(_, _)
ChartOf(adds, n) ==
  IF n = 0 THEN <<>> ELSE add(ChartOf(adds, n - 1), adds[n])

\* the charts get_by_symbol is called on, with the symbol asked for
GetBySymbolArguments ==
  {[entries |-> ChartOf(adds, Len(adds)), symbol |-> s] :
     adds \in SeqsUpTo(AddedEntries, MaxAdds), s \in {"NP", "VP", "S"}}

\* chart.get_by_symbol(symbol) on a chart with the items `entries`: the list
\* returned and the items of the chart after the call
get_by_symbol_call(entries, symbol) ==
  [error |-> "none", list |-> get_by_symbol(entries, symbol),
   entries |-> entries]

\* the trees of depth at most d over the labels L, with up to two children
RECURSIVE TreesOfDepth(_, _)
TreesOfDepth(L, d) ==
  IF d = 0 THEN {Tree(l, <<>>) : l \in L}
  ELSE The({{Tree(l, cs) : l \in L, cs \in SeqsUpTo(sub, 2)} :
             sub \in {TreesOfDepth(L, d - 1)}})

TreeArguments == TreesOfDepth({"S", "A", "a"}, MaxDepth)

\* Rule(self.data, *current_rhs) in Tree.rules: the elements are labels (str);
\* _validate reads el.unique_string_variables of every right-side element,
\* which a str does not have
LabelRule(data, current_rhs) ==
  IF Len(current_rhs) > 0
  THEN [error |-> "AttributeError", rule |-> MCFGRule(data, current_rhs)]
  ELSE [error |-> "none", rule |-> MCFGRule(data, current_rhs)]

\* Tree.rules: the exception raised, or the set returned
RECURSIVE tree_rules(_)
tree_rules(tree) ==
  LET current_rhs == [k \in 1..Len(tree.children) |-> tree.children[k].data]
      inner == {k \in 1..Len(tree.children) :
                  Len(tree.children[k].children) > 0}
      Outcome(sub, own) ==
        LET failing == {k \in inner : sub[k].error # "none"}
        IN  IF failing # {}
            THEN [error |-> sub[Min(failing)].error, rules |-> {}]
            ELSE IF own.error # "none"
            THEN [error |-> own.error, rules |-> {}]
            ELSE [error |-> "none",
                  rules |-> UNION {sub[k].rules : k \in inner} \cup {own.rule}]
  IN  The({Outcome(sub, own) :
             sub \in {[k \in inner |-> tree_rules(tree.children[k])]},
             own \in {LabelRule(tree.data, current_rhs)}})

\* a call that was not made yet
Pending(op, input) == [op |-> op, input |-> input, done |-> FALSE]
Done(c, output) ==
  [op |-> c.op, input |-> c.input, done |-> TRUE, output |-> output]

\* the calls made, each on arguments of its own
Calls(c) ==
  \/ \E a \in IndexRuleArguments : c = Pending("MCFGRule", a)
  \/ \E a \in TerminalRuleArguments : c = Pending("MCFGRule", a)
  \/ \E a \in ExampleInstantiations : c = Pending("instantiate_left_side", a)
  \/ \E r \in 1..Len(InstantiateRules), rs \in ChildTuples :
       c = Pending("instantiate_left_side", [rule |-> r, right_side |-> rs])
  \/ \E a \in GrammarArguments : c = Pending("MCFGGrammar", a)
  \/ \E a \in GetBySymbolArguments : c = Pending("get_by_symbol", a)
  \/ \E a \in TreeArguments : c = Pending("Tree.rules", a)

InitCalls ==
  /\ grammar = "Binary"
  /\ order = [i \in 1..Len(RulesOf("Binary")) |-> i]
  /\ tokens = <<>>
  /\ chart = <<>>
  /\ agenda = <<>>
  /\ trigger = NoEntry
  /\ pc = "constructed"
  /\ calls = 0
  /\ results = <<>>
  /\ Calls(call)

Parser == <<grammar, order, tokens, chart, agenda, trigger, pc, calls, results>>

\* MCFGRule(left_side, *right_side)
RuleInit ==
  /\ call.op = "MCFGRule" /\ ~call.done
  /\ call' = Done(call, MCFGRule_init(call.input.left_side,
                                      call.input.right_side))
  /\ UNCHANGED Parser

\* rule.instantiate_left_side(*right_side)
InstantiateLeftSide ==
  /\ call.op = "instantiate_left_side" /\ ~call.done
  /\ call' = Done(call, instantiate_left_side(InstantiateRules[call.input.rule],
                                              call.input.right_side))
  /\ UNCHANGED Parser

\* MCFGGrammar(alphabet, variables, rules, start_variable)
GrammarInit ==
  /\ call.op = "MCFGGrammar" /\ ~call.done
  /\ call' = Done(call, MCFGGrammar_init(call.input))
  /\ UNCHANGED Parser

\* chart.get_by_symbol(symbol)
GetBySymbol ==
  /\ call.op = "get_by_symbol" /\ ~call.done
  /\ call' = Done(call, get_by_symbol_call(call.input.entries,
                                           call.input.symbol))
  /\ UNCHANGED Parser

\* tree.rules
TreeRules ==
  /\ call.op = "Tree.rules" /\ ~call.done
  /\ call' = Done(call, tree_rules(call.input))
  /\ UNCHANGED Parser

NextCalls ==
  \/ RuleInit
  \/ InstantiateLeftSide
  \/ GrammarInit
  \/ GetBySymbol
  \/ TreeRules

SpecCalls == InitCalls /\ [][NextCalls]_vars

\* ------------------------------------------------------------ properties
\* what the parse call that returned last has returned
LastTrees == results[Len(results)].trees

\* the facts committed in the chart
Committed == UNION {chart[k].entries : k \in 1..Len(chart)}

\* C1: every tree returned by parse(tokens) has terminals equal to tokens
Soundness ==
  pc = "returned" => \A t \in LastTrees : terminals(t) = tokens

\* C2: a parse call leaves its Step loop only through Halt, with the agenda
\* empty, and returns
Termination ==
  (calls > 0 /\ pc # "running") => (pc = "returned" /\ agenda = <<>>)

\* C3: parse returns exactly the trees of the committed facts whose
\* nonterminal is the grammar's start variable
StartSymbolResults ==
  pc = "returned" =>
    LastTrees = {to_tree(e) : e \in {c \in Committed :
                   c.instance.variable = Grammar(grammar).start_variable}}

\* C4: Scenario A, [the, dog, barks] gives exactly the one tree
\* (S (NP (D the) (N dog)) (VP (V barks)))
ScenarioATree ==
  Tree("S", <<Tree("NP", <<Tree("D", <<Tree("the", <<>>)>>),
                           Tree("N", <<Tree("dog", <<>>)>>)>>),
              Tree("VP", <<Tree("V", <<Tree("barks", <<>>)>>)>>)>>)

ScenarioA ==
  (pc = "returned" /\ grammar = "ScenarioA"
     /\ tokens = <<"the", "dog", "barks">>) => LastTrees = {ScenarioATree}

\* some token matches the terminal of no epsilon rule of the grammar
HasUnknownWord(toks) ==
  \E i \in 1..Len(toks) :
    \A r \in 1..Len(Rules) :
      is_epsilon(Rules[r]) => Rules[r].left_side.string_variables[1][1] # toks[i]

\* C5: Scenario B, a call whose tokens hold a word no epsilon rule matches
\* returns the empty set and raises nothing
ScenarioB ==
  (calls > 0 /\ pc # "running" /\ HasUnknownWord(tokens)) =>
    (pc = "returned" /\ LastTrees = {})

WhoDoes == <<"who", "does", "the", "greyhound", "believe">>

HasKey(entries, key) == \E k \in 1..Len(entries) : entries[k].key = key

\* C6: Scenario C, on the greyhound grammar parse(who does the greyhound
\* believe) returns at least one tree, every returned tree is rooted in S, and
\* the multi-span facts built on the way hold one span (begin < end) per
\* argument group of the rule that built them
ScenarioC ==
  (pc = "returned" /\ grammar = "Greyhound" /\ tokens = WhoDoes) =>
    /\ LastTrees # {}
    /\ \A t \in LastTrees : t.data = "S"
    /\ HasKey(chart, <<"VPwhmain", <<<<0, 1>>, <<4, 5>>>>>>)
    /\ HasKey(chart, <<"Swhmain", <<<<0, 1>>, <<2, 5>>>>>>)
    /\ HasKey(chart, <<"S", <<<<0, 5>>>>>>)
    /\ \A e \in Committed :
         /\ Len(e.instance.string_spans) =
              Len(Rules[e.rule].left_side.string_variables)
         /\ \A s \in 1..Len(e.instance.string_spans) :
              e.instance.string_spans[s][1] < e.instance.string_spans[s][2]

ScenarioCWitness ==
  /\ pc = "returned" /\ grammar = "Greyhound" /\ tokens = WhoDoes
  /\ LastTrees # {}
  /\ \E e \in Committed : Len(e.instance.string_spans) = 2

\* C7: two parse calls with the same tokens on the same grammar return equal
\* sets of trees
Determinism ==
  \A i, j \in 1..Len(results) :
    results[i].tokens = results[j].tokens => results[i].trees = results[j].trees

\* C8: no state crosses parse calls: whatever was parsed before, a call
\* returns what a newly constructed parser of the grammar returns for its tokens
NoStateCrossesCalls ==
  pc = "returned" =>
    FreshParse(tokens) = [error |-> "none", trees |-> LastTrees]

\* C9: the chart holds exactly one fact under each key that was added, also
\* when facts added under the key differ in rule or backpointers
ChartDeduplication ==
  /\ \A k \in 1..Len(chart) :
       /\ Cardinality(chart[k].entries) = 1
       /\ \A e \in chart[k].entries : Key(e) = chart[k].key
       /\ \A k2 \in 1..Len(chart) : chart[k2].key = chart[k].key => k2 = k
  /\ trigger # NoEntry => HasKey(chart, Key(trigger))
  /\ pc = "constructed" => chart = <<>>

\* the fact added last had the key of a committed fact and another derivation
ChartDeduplicationWitness ==
  /\ pc = "running"
  /\ \E k \in 1..Len(chart) :
       /\ chart[k].key = Key(trigger)
       /\ Cardinality(chart[k].entries) = 1
       /\ \E e \in chart[k].entries : e.backpointers # trigger.backpointers

\* C10: a committed key is never removed and the fact retained under it is
\* never replaced; adding a fact whose key is committed leaves the chart as
\* it is
FirstCommittedWins ==
  [][/\ \A k \in 1..Len(chart) : k <= Len(chart') /\ chart'[k] = chart[k]
     /\ (pc = "running" /\ pc' # "returned" /\ agenda # <<>>
           /\ HasKey(chart, Key(Head(agenda)))) => chart' = chart]_vars

\* a fact built by another rule than the retained fact of its key was added
FirstCommittedWinsWitness ==
  /\ pc = "running"
  /\ \E e \in Committed :
       /\ Key(e) = Key(trigger)
       /\ e.rule # trigger.rule

\* ---------------------------------------- the chart and the rule operations
\* the facts held by the chart items `entries`
FactsOf(entries) == UNION {entries[k].entries : k \in 1..Len(entries)}

GetBySymbolReturned == call.op = "get_by_symbol" /\ call.done

\* C11: get_by_symbol(name) returns exactly the facts of the chart whose
\* nonterminal is name, over all span tuples, each once, the empty list when
\* there is none, and leaves the chart as it was.
GetBySymbolContract ==
  GetBySymbolReturned =>
    LET list == call.output.list
        named == {e \in FactsOf(call.input.entries) :
                    e.instance.variable = call.input.symbol}
    IN  /\ {list[i] : i \in 1..Len(list)} = named
        /\ Len(list) = Cardinality(named)
        /\ (named = {} => list = <<>>)
        /\ call.output.entries = call.input.entries

\* a call that returned two facts of one nonterminal from a chart that holds
\* another nonterminal too
GetBySymbolContractWitness ==
  /\ GetBySymbolReturned
  /\ Len(call.output.list) = 2
  /\ call.output.list[1].instance.string_spans #
       call.output.list[2].instance.string_spans
  /\ Len(call.input.entries) = 3

Instantiated == call.op = "instantiate_left_side" /\ call.done

CalledRule == InstantiateRules[call.input.rule]

\* the children match the right side of the called rule in count, in
\* nonterminal name and in arity, position by position
Aligned ==
  /\ Len(call.input.right_side) = Len(CalledRule.right_side)
  /\ \A k \in 1..Len(CalledRule.right_side) :
       /\ call.input.right_side[k].variable = CalledRule.right_side[k].variable
       /\ Len(call.input.right_side[k].string_spans) =
            Len(CalledRule.right_side[k].string_variables)

\* the child spans at the positions of the right side that declare index v
SpansBoundTo(v) ==
  UNION {{call.input.right_side[k].string_spans[j] :
            j \in {j \in 1..Len(CalledRule.right_side[k].string_variables) :
                     \E i \in 1..Len(CalledRule.right_side[k].string_variables[j]) :
                       CalledRule.right_side[k].string_variables[j][i] = v}} :
           k \in 1..Len(CalledRule.right_side)}

\* C12: when instantiate_left_side succeeds on aligned children it returns
\* an instance named after the left side with one span per left-side group,
\* in order, from the begin of a span bound to the group's first index to the
\* end of a span bound to its last index; the two calls of the example return
\* A((1,4),(5,8)) and A((0,5)).
SpanComposition ==
  /\ (Instantiated /\ Aligned /\ call.output.error = "none") =>
       LET groups == CalledRule.left_side.string_variables
           spans == call.output.instance.string_spans
       IN  /\ call.output.instance.variable = CalledRule.left_side.variable
           /\ Len(spans) = Len(groups)
           /\ \A g \in 1..Len(groups) :
                /\ \E s \in SpansBoundTo(groups[g][1]) : spans[g][1] = s[1]
                /\ \E s \in SpansBoundTo(groups[g][Len(groups[g])]) :
                     spans[g][2] = s[2]
  /\ (Instantiated /\ call.input.rule = 2 /\
      call.input.right_side =
        <<MCFGRuleElementInstance("B", <<<<1, 2>>, <<5, 7>>>>),
          MCFGRuleElementInstance("C", <<<<2, 4>>, <<7, 8>>>>)>>) =>
       call.output =
         Return(MCFGRuleElementInstance("A", <<<<1, 4>>, <<5, 8>>>>))
  /\ (Instantiated /\ call.input.rule = 1 /\
      call.input.right_side =
        <<MCFGRuleElementInstance("B", <<<<0, 2>>>>),
          MCFGRuleElementInstance("C", <<<<2, 5>>>>)>>) =>
       call.output = Return(MCFGRuleElementInstance("A", <<<<0, 5>>>>))

\* the call of the test has returned its two-span instance
SpanCompositionWitness ==
  /\ Instantiated /\ Aligned /\ call.output.error = "none"
  /\ call.input.rule = 2
  /\ call.output.instance.string_spans = <<<<1, 4>>, <<5, 8>>>>

\* some left-side group has two consecutive indices bound to spans of which
\* the first does not end where the second begins
NotAdjacent ==
  LET groups == CalledRule.left_side.string_variables
  IN  \E g \in 1..Len(groups) : \E i \in 2..Len(groups[g]) :
        \E s1 \in SpansBoundTo(groups[g][i-1]) :
          \E s2 \in SpansBoundTo(groups[g][i]) : s1[2] # s2[1]

\* C13: on aligned children instantiate_left_side raises ValueError exactly
\* when some left-side group has two consecutive indices bound to spans that
\* are not adjacent, and then returns no instance.
StrictAdjacency ==
  (Instantiated /\ Aligned) =>
    /\ call.output.error = "ValueError" <=> NotAdjacent
    /\ call.output.error = "ValueError" => call.output.instance = NoInstance

\* the children differ from the right side in count, or at some position in
\* nonterminal name or in arity
Misaligned ==
  \/ Len(call.input.right_side) # Len(CalledRule.right_side)
  \/ \E k \in 1..Min({Len(call.input.right_side), Len(CalledRule.right_side)}) :
       \/ call.input.right_side[k].variable # CalledRule.right_side[k].variable
       \/ Len(call.input.right_side[k].string_spans) #
            Len(CalledRule.right_side[k].string_variables)

\* C14: for a non-epsilon rule instantiate_left_side raises ValueError and
\* returns nothing whenever the children differ from the right side in count,
\* in nonterminal name or in span-tuple arity.
AlignmentCheck ==
  (Instantiated /\ ~is_epsilon(CalledRule) /\ Misaligned) =>
    call.output = Raise("ValueError")

\* a call with the right count and names, one child of the wrong arity, has
\* raised
AlignmentCheckWitness ==
  /\ Instantiated /\ ~is_epsilon(CalledRule)
  /\ Len(call.input.right_side) = Len(CalledRule.right_side)
  /\ \A k \in 1..Len(CalledRule.right_side) :
       call.input.right_side[k].variable = CalledRule.right_side[k].variable
  /\ \E k \in 1..Len(CalledRule.right_side) :
       Len(call.input.right_side[k].string_spans) #
         Len(CalledRule.right_side[k].string_variables)
  /\ call.output.error = "ValueError"

\* C15: on a rule with no right side instantiate_left_side succeeds exactly
\* when given one child named as the terminal of the left side, and returns
\* the left-side nonterminal with that child's spans; on any other children
\* (none, several, another name) it raises ValueError.
EpsilonCase ==
  (Instantiated /\ is_epsilon(CalledRule)) =>
    LET children == call.input.right_side
        terminal == CalledRule.left_side.string_variables[1][1]
    IN  IF Len(children) = 1 /\ children[1].variable = terminal
        THEN call.output =
               Return(MCFGRuleElementInstance(CalledRule.left_side.variable,
                                              children[1].string_spans))
        ELSE call.output = Raise("ValueError")

\* the instantiate_left_side calls made by the Step that pops the head of the
\* agenda, in order, each with the fact it would enqueue
StepAttempts ==
  The({Concat([k \in 1..Len(order) |->
                 IF Len(Rules[order[k]].right_side) = 2
                 THEN Attempts(Head(agenda), ch2, order[k]) ELSE <<>>]) :
         ch2 \in {add(chart, Head(agenda))}})

\* C16: a Step in which instantiate_left_side fails for some (rule, trigger,
\* candidate) goes on with the other candidates and rules: parse keeps
\* running, the trigger is committed, and exactly the facts of the attempts
\* that succeeded are enqueued, in order.
FailureDoesNotAbort ==
  [][(pc = "running" /\ agenda # <<>> /\
      \E k \in 1..Len(StepAttempts) : StepAttempts[k].error # "none") =>
       LET Succeeded(a) == a.error = "none"
           ok == SelectSeq(StepAttempts, Succeeded)
       IN  /\ pc' = "running"
           /\ chart' = add(chart, Head(agenda))
           /\ agenda' = Tail(agenda) \o [k \in 1..Len(ok) |-> ok[k].entry]]_vars

RuleConstructed == call.op = "MCFGRule" /\ call.done

\* some index is used by two distinct right-side elements of the rule called
Overlapping ==
  \E i, j \in 1..Len(call.input.right_side) :
    /\ i # j
    /\ \E gi \in 1..Len(call.input.right_side[i].string_variables) :
         \E gj \in 1..Len(call.input.right_side[j].string_variables) :
           \E a \in 1..Len(call.input.right_side[i].string_variables[gi]) :
             \E b \in 1..Len(call.input.right_side[j].string_variables[gj]) :
               call.input.right_side[i].string_variables[gi][a] =
                 call.input.right_side[j].string_variables[gj][b]

\* the indices used by an element
IndicesOf(el) ==
  {v \in 0..MaxIndex :
     \E g \in 1..Len(el.string_variables) :
       \E i \in 1..Len(el.string_variables[g]) : el.string_variables[g][i] = v}

\* C17: constructing a rule whose right-side elements have overlapping index
\* sets raises a validation error, whatever the left side.
OverlapRejected ==
  (RuleConstructed /\ Overlapping) => call.output.error = "ValueError"

\* a rule whose left side uses exactly the indices of its right side, two
\* elements of which share an index, was rejected
OverlapRejectedWitness ==
  /\ RuleConstructed /\ Overlapping
  /\ IndicesOf(call.input.left_side) =
       UNION {IndicesOf(call.input.right_side[k]) :
                k \in 1..Len(call.input.right_side)}
  /\ call.output.error = "ValueError"

\* the left side's index set differs from the union of the right side's
LeftIndicesDiffer ==
  \/ \E v \in IndicesOf(call.input.left_side) :
       \A k \in 1..Len(call.input.right_side) :
         v \notin IndicesOf(call.input.right_side[k])
  \/ \E k \in 1..Len(call.input.right_side) :
       \E v \in IndicesOf(call.input.right_side[k]) :
         v \notin IndicesOf(call.input.left_side)

\* C18: constructing a non-epsilon rule whose left-side index set differs
\* from the union of the right-side index sets (an unbound left index, or a
\* right index the left side never uses) raises a validation error.
LeftIndicesRejected ==
  (RuleConstructed /\ Len(call.input.right_side) > 0 /\ LeftIndicesDiffer) =>
    call.output.error = "ValueError"

\* a rule with disjoint right-side elements, one index of which the left
\* side does not use, was rejected
LeftIndicesRejectedWitness ==
  /\ RuleConstructed /\ Len(call.input.right_side) > 0 /\ ~Overlapping
  /\ IndicesOf(call.input.left_side) # {}
  /\ \A v \in IndicesOf(call.input.left_side) :
       \E k \in 1..Len(call.input.right_side) :
         v \in IndicesOf(call.input.right_side[k])
  /\ LeftIndicesDiffer
  /\ call.output.error = "ValueError"

GrammarConstructed == call.op = "MCFGGrammar" /\ call.done

\* C19: constructing a grammar raises a validation error whenever alphabet
\* and variables share an element or the start variable is not one of the
\* variables; every grammar that is constructed meets both conditions.
GrammarRejected ==
  GrammarConstructed =>
    /\ (\E x \in call.input.alphabet : x \in call.input.variables) =>
         call.output.error = "ValueError"
    /\ call.input.start_variable \notin call.input.variables =>
         call.output.error = "ValueError"

\* a grammar with disjoint alphabet and variables and valid rules, whose
\* start variable is not a variable, was rejected
GrammarRejectedWitness ==
  /\ GrammarConstructed
  /\ call.input.alphabet # {} /\ call.input.variables # {}
  /\ \A x \in call.input.alphabet : x \notin call.input.variables
  /\ call.input.start_variable \notin call.input.variables
  /\ call.output.error = "ValueError"

\* the nodes of a tree that have children
RECURSIVE InternalNodes(_)
InternalNodes(tree) ==
  IF Len(tree.children) = 0 THEN {}
  ELSE {tree} \cup UNION {InternalNodes(tree.children[k]) :
                           k \in 1..Len(tree.children)}

\* C20: Tree.rules returns, without failing, one rule per internal node of
\* the tree: the node's label on the left, the labels of its children, in
\* order, on the right.
TreeRulesOfInternalNodes ==
  (call.op = "Tree.rules" /\ call.done) =>
    /\ call.output.error = "none"
    /\ call.output.rules =
         {MCFGRule(n.data, [k \in 1..Len(n.children) |-> n.children[k].data]) :
            n \in InternalNodes(call.input)}

\* ------------------------------------------------- the agenda and the chart
\* a Step of the loop of parse is about to run
Stepping == pc = "running" /\ agenda # <<>>

\* C21: during the Step loop no fact is appended to the agenda whose
\* (nonterminal, span-tuple) key is already committed in the chart, and no
\* fact built by _infer is popped as a trigger when its key is already
\* committed, so each key is processed as a trigger at most once per parse.
NoReenqueue ==
  [][Stepping =>
       /\ \A k \in Len(agenda)..Len(agenda') :
            ~HasKey(chart', Key(agenda'[k]))
       /\ Len(Head(agenda).backpointers) = 2 =>
            ~HasKey(chart, Key(Head(agenda)))]_vars

\* the numbers of the rules with exactly two right-side elements
TwoElementRules == {r \in 1..Len(Rules) : Len(Rules[r].right_side) = 2}

\* the pairs (b, c) of committed facts under the right-side nonterminals of
\* rule r
CommittedPairs(r) ==
  {bc \in Committed \X Committed :
     /\ bc[1].instance.variable = Rules[r].right_side[1].variable
     /\ bc[2].instance.variable = Rules[r].right_side[2].variable}

\* instantiate_left_side of rule r on the pair bc
Composed(r, bc) ==
  instantiate_left_side(Rules[r], <<bc[1].instance, bc[2].instance>>)

\* C22: when parse has halted the chart is closed under binary rule
\* application: for every rule with two right-side elements (B, C) and every
\* pair of committed facts b under B and c under C on which
\* instantiate_left_side succeeds, the key of the result is committed.
FixedPointAtHalt ==
  pc = "returned" =>
    \A r \in TwoElementRules : \A bc \in CommittedPairs(r) :
      \A inst \in {Composed(r, bc)} :
        inst.error = "none" => HasKey(chart, Key([instance |-> inst.instance]))

\* the facts the Seed phase is to build for the tokens toks: one per token
\* position i and epsilon rule r whose terminal is toks[i]
SeedFacts(toks) ==
  {MCFGChartEntry(
     MCFGRuleElementInstance(Rules[r].left_side.variable, <<<<i, i + 1>>>>), r,
     <<MCFGChartEntry(MCFGRuleElementInstance(toks[i + 1], <<<<i, i + 1>>>>),
                      NoRule, <<>>)>>) :
   <<i, r>> \in {ir \in (0..(Len(toks) - 1)) \X (1..Len(Rules)) :
                  /\ is_epsilon(Rules[ir[2]])
                  /\ Rules[ir[2]].left_side.string_variables[1][1]
                       = toks[ir[1] + 1]}}

\* the Seed phase of a parse call has just run
Seeded == pc # "running" /\ pc' = "running"

\* C23: after the Seed phase, for every token position i and every epsilon
\* rule whose terminal equals tokens[i] the fact (left-side nonterminal,
\* ((i, i+1),)) with that rule and one terminal-leaf backpointer is on the
\* agenda and in the chart, and the agenda holds these facts in token-position
\* order and nothing else.
SeedPostcondition ==
  [][Seeded =>
       /\ \A e \in SeedFacts(tokens') :
            /\ e \in FactsOf(chart')
            /\ \E k \in 1..Len(agenda') : agenda'[k] = e
       /\ \A k \in 1..Len(agenda') : agenda'[k] \in SeedFacts(tokens')
       /\ \A j, k \in 1..Len(agenda') :
            j < k => agenda'[j].instance.string_spans[1][1]
                       <= agenda'[k].instance.string_spans[1][1]]_vars

\* the facts one Step is to enqueue for the trigger trig and the committed
\* facts: for every two-element rule (B, C), a fact with backpointers
\* <<trig, c>> for each c under C when trig is under B, and a fact with
\* backpointers <<b, trig>> for each b under B when trig is under C, where
\* the composition succeeds
PairedFacts(trig, facts) ==
  UNION {
    {MCFGChartEntry(Composed(r, bc).instance, r, <<bc[1], bc[2]>>) :
       bc \in {bc \in ({trig} \X facts) \cup (facts \X {trig}) :
                /\ bc[1].instance.variable = Rules[r].right_side[1].variable
                /\ bc[2].instance.variable = Rules[r].right_side[2].variable
                /\ Composed(r, bc).error = "none"}} :
    r \in TwoElementRules}

\* C24: in one Step the trigger is committed to the chart first, and then
\* for every two-element rule (B, C) one fact is enqueued for each committed
\* fact that composes with the trigger, (trigger, candidate) when the trigger
\* is under B and (candidate, trigger) when it is under C, with the
\* backpointers in the rule's right-side order; nothing else is enqueued.
StepPairing ==
  [][Stepping =>
       /\ HasKey(chart', Key(Head(agenda)))
       /\ {agenda'[k] : k \in Len(agenda)..Len(agenda')}
            = PairedFacts(Head(agenda), FactsOf(chart'))
       /\ Len(agenda') - Len(agenda) + 1
            = Cardinality(PairedFacts(Head(agenda), FactsOf(chart')))]_vars

\* the facts on the agenda
Enqueued == {agenda[k] : k \in 1..Len(agenda)}

\* the fact e is what the Seed phase builds with an epsilon rule
FromEpsilonRule(e) ==
  /\ is_epsilon(Rules[e.rule])
  /\ Len(e.backpointers) = 1
  /\ e.backpointers[1].rule = NoRule
  /\ e.backpointers[1].backpointers = <<>>

\* the fact e is what _infer builds with a rule of two right-side elements
FromTwoElementRule(e) ==
  /\ e.rule \in TwoElementRules
  /\ Len(e.backpointers) = 2

\* the numbers of the rules with one or with three or more right-side
\* elements whose right-side nonterminals all have a committed fact
OtherRulesWithFacts ==
  {r \in 1..Len(Rules) :
     /\ Len(Rules[r].right_side) \notin {0, 2}
     /\ \A k \in 1..Len(Rules[r].right_side) : \E e \in Committed :
          e.instance.variable = Rules[r].right_side[k].variable}

\* C25: every fact on the agenda or in the chart was built by an epsilon
\* rule in the Seed phase or by a rule with exactly two right-side elements;
\* a rule with one or with three or more right-side elements yields no fact,
\* although the grammar that holds it was constructed without error.
OnlyEpsilonAndBinary ==
  /\ grammar_validate(Grammar(grammar))
  /\ \A e \in Committed \cup Enqueued :
       /\ e.rule \in 1..Len(Rules)
       /\ FromEpsilonRule(e) \/ FromTwoElementRule(e)

\* a parse has halted on a grammar with a unary or ternary rule whose
\* right-side nonterminals all have committed facts
OnlyEpsilonAndBinaryWitness ==
  /\ pc = "returned"
  /\ OtherRulesWithFacts # {}
  /\ \E e \in Committed : FromTwoElementRule(e)

\* sequence s is the beginning of sequence t
IsPrefix(s, t) == Len(s) <= Len(t) /\ SubSeq(t, 1, Len(s)) = s

\* C26: the agenda is a FIFO queue: a Step pops its head and appends at its
\* back, the Seed phase appends at its back, all seed facts come before any
\* derived fact (so the consequences of an earlier trigger leave before those
\* of a later one), and the chart is written only by the Seed phase, with
\* seed facts, and by the commit of the popped trigger.
FifoAgenda ==
  [][/\ Stepping => trigger' = Head(agenda) /\ IsPrefix(Tail(agenda), agenda')
     /\ ~Stepping => IsPrefix(agenda, agenda')
     /\ \A j, k \in 1..Len(agenda') :
          (j < k /\ FromTwoElementRule(agenda'[j]))
            => FromTwoElementRule(agenda'[k])
     /\ FactsOf(chart') \subseteq
          FactsOf(chart) \cup
            (IF Stepping THEN {Head(agenda)}
             ELSE IF pc # "running" THEN SeedFacts(tokens') ELSE {})]_vars

\* the keys committed in the chart
CommittedKeys == {chart[k].key : k \in 1..Len(chart)}

\* the instances of the seed facts of the parse calls that have returned
SeedInstances ==
  UNION {{e.instance : e \in SeedFacts(results[k].tokens)} :
         k \in 1..Len(results)}

\* the instances that one more application of the two-element rules adds to
\* the set insts, whatever the order of the rules and of the candidates
Derive(insts) ==
  insts \cup
  UNION {{res.instance :
            res \in {out \in {instantiate_left_side(Rules[r], bc) :
                                bc \in {bc \in insts \X insts :
                                  /\ bc[1].variable = Rules[r].right_side[1].variable
                                  /\ bc[2].variable = Rules[r].right_side[2].variable}} :
                       out.error = "none"}} :
         r \in TwoElementRules}

\* the least set of instances that holds insts and is closed under Derive
RECURSIVE Closure(_)
Closure(insts) ==
  The({IF more = insts THEN insts ELSE Closure(more) :
        more \in {Derive(insts)}})

\* C27: for a fixed grammar and fixed token sequences the set of keys
\* committed in the chart at Halt is the same for every order in which the
\* rules and the candidate facts are iterated: it is the closure of the seed
\* instances under the two-element rules, which no order enters.
OrderIndependence ==
  (pc = "returned" /\ Len(results) = calls) =>
    CommittedKeys
      = {<<i.variable, i.string_spans>> : i \in Closure(SeedInstances)}

\* a parse has halted under an order other than the declared one, with a
\* derived fact that has a derived fact among its backpointers
OrderIndependenceWitness ==
  /\ pc = "returned"
  /\ Len(results) = calls
  /\ order # [i \in 1..Len(Rules) |-> i]
  /\ \E e \in Committed :
       /\ FromTwoElementRule(e)
       /\ \E k \in 1..2 : FromTwoElementRule(e.backpointers[k])

\* the positions of the index v in the argument groups of an element
PositionsOf(el, v) ==
  {gi \in (1..Len(el.string_variables)) \X (1..MaxLeft) :
     /\ gi[2] <= Len(el.string_variables[gi[1]])
     /\ el.string_variables[gi[1]][gi[2]] = v}

\* the indices the right side of the rule called declares
RightIndices ==
  UNION {IndicesOf(call.input.right_side[k]) :
           k \in 1..Len(call.input.right_side)}

\* C28: in every successfully constructed non-epsilon rule every right-side
\* index occurs exactly once among the indices of the left side's argument
\* groups, and the left side uses no index the right side does not declare.
ExactlyOnceConsumption ==
  (/\ RuleConstructed
   /\ Len(call.input.right_side) > 0
   /\ call.output.error = "none") =>
    /\ \A v \in RightIndices :
         Cardinality(PositionsOf(call.input.left_side, v)) = 1
    /\ IndicesOf(call.input.left_side) \subseteq RightIndices

\* the indices of the left side of the called rule, over all its groups
LeftIndices ==
  LET groups == CalledRule.left_side.string_variables
  IN  UNION {{groups[g][i] : i \in 1..Len(groups[g])} : g \in 1..Len(groups)}

\* C29: for aligned children of a constructed rule the span map binds every
\* index used on the left side to exactly one child span, and
\* instantiate_left_side returns an instance or raises ValueError, never
\* another exception.
TotalSpanMap ==
  (Instantiated /\ Aligned) =>
    /\ \A span_map \in {build_span_map(CalledRule, call.input.right_side)} :
         \A v \in LeftIndices :
           Cardinality({k \in 1..Len(span_map) : span_map[k].strvar = v}) = 1
    /\ call.output.error \in {"none", "ValueError"}

\* the spans s and t share a token position
Overlap(s, t) == s[1] < t[2] /\ t[1] < s[2]

\* C30: in every fact committed to the chart the component spans are
\* pairwise non-overlapping: no child sub-span is used twice, so no token
\* position is covered more than once by one fact.
NoSubSpanReused ==
  \A e \in Committed :
    \A i, j \in 1..Len(e.instance.string_spans) :
      i # j => ~Overlap(e.instance.string_spans[i], e.instance.string_spans[j])

\* ------------------------------------------------ the derivations retained
\* instantiate_left_side of the rule of the fact e on its two backpointers
Rebuilt(e) ==
  instantiate_left_side(Rules[e.rule],
                        <<e.backpointers[1].instance, e.backpointers[2].instance>>)

\* C31: every fact on the agenda or in the chart that carries a two-element
\* rule r has exactly two backpointers b, c on which r.instantiate_left_side
\* succeeds and returns the fact's own instance, and the keys of b and c are
\* committed in the chart.
WitnessValidity ==
  \A e \in {f \in Committed \cup Enqueued : f.rule \in TwoElementRules} :
    /\ Len(e.backpointers) = 2
    /\ \A inst \in {Rebuilt(e)} :
         inst.error = "none" /\ inst.instance = e.instance
    /\ \A k \in 1..2 : HasKey(chart, Key(e.backpointers[k]))

\* a fact built from a derived fact is on the agenda while another is
\* committed
WitnessValidityWitness ==
  /\ pc = "running"
  /\ \E e \in Enqueued :
       /\ e.rule \in TwoElementRules
       /\ \E k \in 1..2 : e.backpointers[k].rule \in TwoElementRules
  /\ \E e \in Committed : e.rule \in TwoElementRules

SpanBounds ==
  pc = "running" =>
    \A e \in Committed \cup Enqueued :
      /\ \A k \in 1..Len(e.instance.string_spans) :
           /\ 0 <= e.instance.string_spans[k][1]
           /\ e.instance.string_spans[k][1] < e.instance.string_spans[k][2]
           /\ e.instance.string_spans[k][2] <= Len(tokens)
      /\ Len(e.instance.string_spans) =
           Len(Rules[e.rule].left_side.string_variables)

\* the total span length of an instance: the sum of end - begin over its
\* spans
RECURSIVE SumLengths(_, _)
SumLengths(spans, k) ==
  IF k > Len(spans) THEN 0
  ELSE (spans[k][2] - spans[k][1]) + SumLengths(spans, k + 1)

TotalLength(e) == SumLengths(e.instance.string_spans, 1)

\* C34: every fact enqueued by a Step has a total span length strictly
\* greater than that of each of its two backpointers, so no fact is derived
\* from a fact with its own key.
StrictGrowth ==
  [][Stepping =>
       \A k \in Len(agenda)..Len(agenda') :
         \A j \in 1..Len(agenda'[k].backpointers) :
           TotalLength(agenda'[k]) > TotalLength(agenda'[k].backpointers[j])]_vars
====
